---- MODULE Spec2Model ----
(***************************************************************************)
(* Model of ansible/inventories/prd-sg1n/hosts.py: the CSV -> Ansible      *)
(* dynamic inventory pipeline (EnvConfig, CSVReader, DynamicGrouper,       *)
(* AnsibleInventoryBuilder, InventoryOutput, Application.run).             *)
(*                                                                         *)
(* Python strings are sequences of one-character strings, so that lower(), *)
(* strip(), split(","), startswith() and sorted() are computed and not     *)
(* assumed.  Python's None is the value None below.  Column names are      *)
(* atoms (TLA+ strings): the code only compares them for equality.         *)
(***************************************************************************)
EXTENDS Integers, Sequences, FiniteSets, TLC

(***************************************************************************)
(* Bounds of the model.                                                    *)
(***************************************************************************)
\* the longest CSV body (data lines) a specification enumerates
MaxRows == 2

(***************************************************************************)
(* Strings.                                                                *)
(***************************************************************************)
\* the characters of the model, in code-point order
Alphabet ==
    << "\t", " ", ",", "-", "0", "1", "2", "3", "4", "5", "6", "7", "8", "9",
       "A", "B", "C", "D", "E", "F", "G", "H", "I", "J", "K", "L", "M",
       "N", "O", "P", "Q", "R", "S", "T", "U", "V", "W", "X", "Y", "Z",
       "_",
       "a", "b", "c", "d", "e", "f", "g", "h", "i", "j", "k", "l", "m",
       "n", "o", "p", "q", "r", "s", "t", "u", "v", "w", "x", "y", "z",
       "é" >>

UpperCase ==
    << "A", "B", "C", "D", "E", "F", "G", "H", "I", "J", "K", "L", "M",
       "N", "O", "P", "Q", "R", "S", "T", "U", "V", "W", "X", "Y", "Z" >>
LowerCase ==
    << "a", "b", "c", "d", "e", "f", "g", "h", "i", "j", "k", "l", "m",
       "n", "o", "p", "q", "r", "s", "t", "u", "v", "w", "x", "y", "z" >>

Whitespace == { "\t", " " }

\* characters outside the ASCII range
NonAscii == { "é" }

\* Python's None (a value no string equals)
None == << "<None>" >>

\* ord(c): the position of c in code-point order
Ord(c) == CHOOSE i \in 1..Len(Alphabet) : Alphabet[i] = c

\* str.lower() on one character
LowerChar(c) ==
    IF \E i \in 1..Len(UpperCase) : UpperCase[i] = c
    THEN LowerCase[CHOOSE i \in 1..Len(UpperCase) : UpperCase[i] = c]
    ELSE c

\* str.lower()
Lower(s) == [i \in 1..Len(s) |-> LowerChar(s[i])]

\* str.strip(): drop leading and trailing whitespace
RECURSIVE LStrip(_)
LStrip(s) == IF s # << >> /\ Head(s) \in Whitespace THEN LStrip(Tail(s)) ELSE s

RECURSIVE RStrip(_)
RStrip(s) ==
    IF s # << >> /\ s[Len(s)] \in Whitespace THEN RStrip(SubSeq(s, 1, Len(s) - 1)) ELSE s

Strip(s) == RStrip(LStrip(s))

\* str.split(","): the fields between commas, empty ones included
RECURSIVE SplitFrom(_, _)
SplitFrom(s, cur) ==
    IF s = << >> THEN << cur >>
    ELSE IF Head(s) = "," THEN << cur >> \o SplitFrom(Tail(s), << >>)
    ELSE SplitFrom(Tail(s), Append(cur, Head(s)))

Split(s) == SplitFrom(s, << >>)

\* str.startswith(prefix)
StartsWith(s, prefix) ==
    /\ Len(s) >= Len(prefix)
    /\ SubSeq(s, 1, Len(prefix)) = prefix

\* s < t in Python's string order (lexicographic by code point)
RECURSIVE StrLess(_, _)
StrLess(s, t) ==
    IF t = << >> THEN FALSE
    ELSE IF s = << >> THEN TRUE
    ELSE IF Head(s) = Head(t) THEN StrLess(Tail(s), Tail(t))
    ELSE Ord(Head(s)) < Ord(Head(t))

\* sorted(list): ascending, duplicates kept
RECURSIVE Insert(_, _)
Insert(x, sorted) ==
    IF sorted = << >> THEN << x >>
    ELSE IF StrLess(x, Head(sorted)) THEN << x >> \o sorted
    ELSE << Head(sorted) >> \o Insert(x, Tail(sorted))

RECURSIVE Sorted(_)
Sorted(list) == IF list = << >> THEN << >> ELSE Insert(Head(list), Sorted(Tail(list)))

\* sorted(keys of a dict): the keys are distinct
RECURSIVE SortedKeys(_)
SortedKeys(S) ==
    IF S = {} THEN << >>
    ELSE LET m == CHOOSE x \in S : \A y \in S \ {x} : StrLess(x, y)
         IN  << m >> \o SortedKeys(S \ {m})

\* truthiness of a str-or-None value
Truthy(v) == v # None /\ v # << >>

\* dict.get(key, default) on a function
Get(d, k, default) == IF k \in DOMAIN d THEN d[k] ELSE default

\* the empty dict
EmptyDict == [k \in {} |-> None]

(***************************************************************************)
(* The string literals of the program.                                     *)
(***************************************************************************)
s_1 == << "1" >>
s_true == << "t", "r", "u", "e" >>
s_yes == << "y", "e", "s" >>
s_on == << "o", "n" >>
s_none == << "n", "o", "n", "e" >>
s_powered_on == << "p", "o", "w", "e", "r", "e", "d", "-", "o", "n" >>
s_poweredon == << "p", "o", "w", "e", "r", "e", "d", "o", "n" >>
s_off == << "o", "f", "f" >>
s_powered_off == << "p", "o", "w", "e", "r", "e", "d", "-", "o", "f", "f" >>
s_poweredoff == << "p", "o", "w", "e", "r", "e", "d", "o", "f", "f" >>
s_del == << "d", "e", "l" >>
s_delete == << "d", "e", "l", "e", "t", "e" >>
s_absent == << "a", "b", "s", "e", "n", "t" >>
s_owner_ == << "o", "w", "n", "e", "r", "_" >>
s_state_ == << "s", "t", "a", "t", "e", "_" >>
s_vm_ == << "v", "m", "_" >>
s_ungrouped == << "u", "n", "g", "r", "o", "u", "p", "e", "d" >>
s_meta == << "_", "m", "e", "t", "a" >>
s_all == << "a", "l", "l" >>

(***************************************************************************)
(* The state of one run.                                                   *)
(***************************************************************************)
VARIABLES
    args,            \* the parsed command line: [host], None without --host
    environ,         \* the process environment: the INV_* variables
    file,            \* the file at the path get_csv_path resolves to
    stdout_encoding, \* the encoding of sys.stdout: "utf-8" or "ascii"
    pc,              \* the position of Application.run
    flags,           \* DynamicGrouper.flags
    state_map,       \* EnvConfig.state_map, shared by grouper and builder
    rows,            \* what CSVReader.read returned
    i,               \* the index of the row the current loop is at
    hostvars,        \* build's hostvars
    uuid_index,      \* build's uuid_index
    groups,          \* generate_groups' groups
    inv,             \* the document build returns
    exc,             \* the exception in flight, "" when none
    stdout,          \* what the run printed: a sequence of JSON values
    stderr,          \* the diagnostics written, in order
    exit_code        \* the exit status, -1 while the run is going

vars == << args, environ, file, stdout_encoding, pc, flags, state_map, rows, i,
           hostvars, uuid_index, groups, inv, exc, stdout, stderr, exit_code >>

\* what a run reads and never writes
inputs == << args, environ, file, stdout_encoding >>

(***************************************************************************)
(* EnvConfig.                                                              *)
(***************************************************************************)
\* EnvConfig._envflag: unset gives the default, otherwise the truthy tokens
envflag(name, default) ==
    LET v == environ[name]
    IN  IF v = None THEN default
        ELSE Lower(v) \in { s_1, s_true, s_yes, s_on }

\* EnvConfig.get_flags
get_flags ==
    [ group_by_owner  |-> envflag("INV_GROUP_BY_OWNER", TRUE),
      group_by_state  |-> envflag("INV_GROUP_BY_STATE", TRUE),
      group_by_custom |-> envflag("INV_GROUP_BY_CUSTOM", TRUE) ]

\* the built-in table of _load_state_map
DefaultStateMap ==
    (s_on :> s_poweredon) @@ (s_powered_on :> s_poweredon) @@ (s_poweredon :> s_poweredon)
    @@ (s_off :> s_poweredoff) @@ (s_powered_off :> s_poweredoff)
    @@ (s_poweredoff :> s_poweredoff)
    @@ (s_del :> s_absent) @@ (s_delete :> s_absent) @@ (s_absent :> s_absent)

\* EnvConfig._load_state_map.  The text of INV_STATE_MAP is given by what
\* json.loads makes of it: json = "unset" (no variable), "empty" (the empty
\* text), "invalid" (JSONDecodeError), "object" (a JSON object, in value) or
\* "array" (valid JSON that is no object).  The result is tagged with its
\* Python type, as json.loads returns whatever the text holds.
load_state_map ==
    LET custom_map == environ["INV_STATE_MAP"]
    IN  CASE custom_map.json = "object" -> [type |-> "dict", items |-> custom_map.value]
          [] custom_map.json = "array"  -> [type |-> "list", items |-> EmptyDict]
          [] OTHER                      -> [type |-> "dict", items |-> DefaultStateMap]

\* _normalize_state of DynamicGrouper and of AnsibleInventoryBuilder (the two
\* bodies are the same), on a table that is a dict
normalize_state(table, state) ==
    Get(table, Lower(Strip(IF state = None THEN << >> ELSE state)), s_poweredon)

(***************************************************************************)
(* CSVReader.                                                              *)
(***************************************************************************)
\* the columns Application.run requires
required_cols == { "vm_name", "vm_state", "vm_ip_addr" }

\* the names of a header
HeaderSet(header) == { header[k] : k \in 1..Len(header) }

\* csv.DictReader on one data line, then the trimming of read: the k-th
\* field goes to the k-th column, a column past the line's end gets None
RowOf(header, line) ==
    [ c \in HeaderSet(header) |->
        LET k == CHOOSE n \in 1..Len(header) : header[n] = c
        IN  IF k <= Len(line) THEN Strip(line[k]) ELSE None ]

\* the rows read keeps: those with a non-blank vm_name, in file order
RECURSIVE Retained(_, _)
Retained(header, lines) ==
    IF lines = << >> THEN << >>
    ELSE LET row == RowOf(header, Head(lines))
         IN  (IF Truthy(row["vm_name"]) THEN << row >> ELSE << >>)
             \o Retained(header, Tail(lines))

\* CSVReader._validate_uniqueness: the names seen again, sorted and distinct
DuplicateNames(rs) ==
    SortedKeys({ rs[k]["vm_name"] : k \in
                   { n \in 1..Len(rs) : \E m \in 1..(n - 1) : rs[m]["vm_name"] = rs[n]["vm_name"] } })

\* the exception CSVReader.read raises on the file, "" when it returns
ReadRaises ==
    CASE file.kind = "missing"     -> "FileNotFoundError"
      [] file.kind = "directory"   -> "IsADirectoryError"
      [] file.kind = "undecodable" -> "UnicodeDecodeError"
      [] file.header = << >>       -> "ValueError"
      [] required_cols \ HeaderSet(file.header) # {} -> "ValueError"
      [] \E k \in 1..Len(file.lines) : Len(file.lines[k]) > Len(file.header)
                                   -> "AttributeError"
      [] OTHER                     -> ""

(***************************************************************************)
(* DynamicGrouper.                                                         *)
(***************************************************************************)
\* groups[g].append(h) on a defaultdict(list)
AppendHost(gs, g, h) ==
    [ x \in DOMAIN gs \cup {g} |->
        IF x = g THEN (IF g \in DOMAIN gs THEN Append(gs[g], h) ELSE << h >>)
        ELSE gs[x] ]

\* AddTokens without the trimming of a token
RECURSIVE AddTokens_NoStrip(_, _, _)
AddTokens_NoStrip(gs, tokens, h) ==
    IF tokens = << >> THEN gs
    ELSE LET group == Head(tokens)
         IN  AddTokens_NoStrip(IF group # << >> THEN AppendHost(gs, group, h) ELSE gs,
                               Tail(tokens), h)

\* the custom rule's loop: every non-empty trimmed token names a group
RECURSIVE AddTokens(_, _, _)
AddTokens(gs, tokens, h) ==
    IF tokens = << >> THEN gs
    ELSE LET group == Strip(Head(tokens))
         IN  AddTokens(IF group # << >> THEN AppendHost(gs, group, h) ELSE gs,
                       Tail(tokens), h)

\* the custom rule of generate_groups
CustomRule(gs, row) ==
    IF flags.group_by_custom /\ Truthy(Get(row, "vm_groups", None))
    THEN AddTokens(gs, Split(row["vm_groups"]), row["vm_name"])
    ELSE gs

\* the owner rule of generate_groups
OwnerRule(gs, row) ==
    IF flags.group_by_owner /\ Truthy(Get(row, "vm_owner", None))
    THEN AppendHost(gs, s_owner_ \o row["vm_owner"], row["vm_name"])
    ELSE gs

\* StateRule naming the group by the raw state
StateRule_RawState(gs, row) ==
    IF flags.group_by_state /\ Truthy(Get(row, "vm_state", None))
    THEN AppendHost(gs, s_state_ \o row["vm_state"], row["vm_name"])
    ELSE gs

\* the state rule of generate_groups, on a table that is a dict
StateRule(gs, row) ==
    IF flags.group_by_state /\ Truthy(Get(row, "vm_state", None))
    THEN AppendHost(gs, s_state_ \o normalize_state(state_map.items, row["vm_state"]),
                    row["vm_name"])
    ELSE gs

\* DefaultRule adding the host only when no group at all holds it
DefaultRule_NoGroupAtAll(gs, row) ==
    IF ~ \E group \in DOMAIN gs :
            \E k \in 1..Len(gs[group]) : gs[group][k] = row["vm_name"]
    THEN AppendHost(gs, s_ungrouped, row["vm_name"])
    ELSE gs

\* the default rule of generate_groups: no group named vm_... holds the host
DefaultRule(gs, row) ==
    IF ~ \E group \in DOMAIN gs :
            /\ StartsWith(group, s_vm_)
            /\ \E k \in 1..Len(gs[group]) : gs[group][k] = row["vm_name"]
    THEN AppendHost(gs, s_ungrouped, row["vm_name"])
    ELSE gs

\* the state rule calls _normalize_state, which needs a dict
StateRuleRaises(row) ==
    /\ flags.group_by_state
    /\ Truthy(Get(row, "vm_state", None))
    /\ state_map.type # "dict"

\* one pass of the loop of generate_groups
ClassifyRow(gs, row) == DefaultRule(StateRule(OwnerRule(CustomRule(gs, row), row), row), row)

(***************************************************************************)
(* AnsibleInventoryBuilder.                                                *)
(***************************************************************************)
\* d[k] = v on a dict
Put(d, k, v) == [ x \in DOMAIN d \cup {k} |-> IF x = k THEN v ELSE d[x] ]

\* the hostvar of one row: every column, then the computed fields
HostVar(row) ==
    LET computed == {"ansible_host"} \cup
                    (IF "vm_state" \in DOMAIN row THEN {"vmware_state"} ELSE {})
    IN  [ k \in DOMAIN row \cup computed |->
            CASE k = "ansible_host" -> Get(row, "vm_ip_addr", << >>)
              [] k = "vmware_state" /\ "vm_state" \in DOMAIN row
                                    -> normalize_state(state_map.items, row["vm_state"])
              [] OTHER              -> row[k] ]

\* UuidOf comparing with "none" without lower()
UuidOf_CaseSensitive(row) ==
    LET vm_uuid == Get(row, "vm_uuid", << >>)
    IN  IF (IF vm_uuid = None THEN << >> ELSE vm_uuid) = s_none THEN None ELSE vm_uuid

\* the vm_uuid build indexes the row under, None when it indexes nothing
UuidOf(row) ==
    LET vm_uuid == Get(row, "vm_uuid", << >>)
    IN  IF Lower(IF vm_uuid = None THEN << >> ELSE vm_uuid) = s_none THEN None ELSE vm_uuid

\* uuid_index after one row
IndexRow(index, row) ==
    IF Truthy(UuidOf(row)) THEN Put(index, UuidOf(row), row["vm_name"]) ELSE index

\* build calls _normalize_state, which needs a dict
HostVarRaises(row) == "vm_state" \in DOMAIN row /\ state_map.type # "dict"

\* the loop over sorted(groups) of build
RECURSIVE PutGroups(_, _, _)
PutGroups(doc, names, gs) ==
    IF names = << >> THEN doc
    ELSE PutGroups(Put(doc, Head(names), [hosts |-> Sorted(gs[Head(names)])]),
                   Tail(names), gs)

\* the document build returns
Document(hv, index, gs) ==
    LET meta   == (s_meta :> [hostvars |-> hv])
        withGs == PutGroups(meta, SortedKeys(DOMAIN gs), gs)
    IN  Put(withGs, s_all,
            [children |-> SortedKeys(DOMAIN gs), vars |-> [uuid_index |-> index]])

(***************************************************************************)
(* InventoryOutput.                                                        *)
(***************************************************************************)
Range(f) == { f[x] : x \in DOMAIN f }

\* what print_host serializes: the host's entry of _meta.hostvars, or {}
HostEntry(doc, hostname) ==
    LET meta == Get(doc, s_meta, EmptyDict)
        hv   == IF "hostvars" \in DOMAIN meta THEN meta["hostvars"] ELSE EmptyDict
    IN  Get(hv, hostname, EmptyDict)

\* the strings of one top-level entry of the document
StringsOfEntry(e) ==
    CASE "hostvars" \in DOMAIN e ->
            UNION { {h} \cup Range(e["hostvars"][h]) : h \in DOMAIN e["hostvars"] }
      [] "hosts" \in DOMAIN e    -> Range(e["hosts"])
      [] OTHER                   ->
            Range(e["children"]) \cup DOMAIN e["vars"]["uuid_index"]
              \cup Range(e["vars"]["uuid_index"])

\* the strings json.dumps writes for the whole document
StringsOfDocument(doc) == DOMAIN doc \cup UNION { StringsOfEntry(doc[k]) : k \in DOMAIN doc }

\* print raises UnicodeEncodeError: ensure_ascii=False leaves a character
\* in the text that the encoding of sys.stdout cannot encode
PrintRaises(strings) ==
    /\ stdout_encoding = "ascii"
    /\ \E s \in strings : \E k \in 1..Len(s) : s[k] \in NonAscii

(***************************************************************************)
(* Exceptions: the classes the except clauses of run tell apart.           *)
(***************************************************************************)
\* the base classes of each exception class raised in the pipeline
Bases ==
    [ FileNotFoundError  |-> {"FileNotFoundError", "OSError", "Exception"},
      IsADirectoryError  |-> {"IsADirectoryError", "OSError", "Exception"},
      UnicodeDecodeError |-> {"UnicodeDecodeError", "UnicodeError", "ValueError", "Exception"},
      UnicodeEncodeError |-> {"UnicodeEncodeError", "UnicodeError", "ValueError", "Exception"},
      ValueError         |-> {"ValueError", "Exception"},
      AttributeError     |-> {"AttributeError", "Exception"} ]

IsInstance(e, class) == class \in Bases[e]

(***************************************************************************)
(* Application.run, one action per step of the pipeline.  The run starts   *)
(* once parse_args has returned.                                           *)
(***************************************************************************)
\* raise e inside the try block
Raise(e) ==
    /\ exc' = e
    /\ pc' = "except"

\* EnvConfig(...), CSVReader(...), DynamicGrouper(config),
\* AnsibleInventoryBuilder(grouper, config), config.get_csv_path()
Setup ==
    /\ pc = "setup"
    /\ flags' = get_flags
    /\ state_map' = load_state_map
    /\ pc' = "read"
    /\ UNCHANGED << inputs, rows, i, hostvars, uuid_index, groups, inv, exc,
                    stdout, stderr, exit_code >>

\* rows = reader.read(csv_path)
Read ==
    /\ pc = "read"
    /\ IF ReadRaises # ""
       THEN /\ Raise(ReadRaises)
            /\ UNCHANGED << rows, i, stderr >>
       ELSE LET kept == Retained(file.header, file.lines)
                dups == DuplicateNames(kept)
            IN  /\ rows' = kept
                /\ stderr' = IF dups # << >>
                             THEN Append(stderr, [level |-> "WARN", what |-> "Duplicate vm_name",
                                                  names |-> dups])
                             ELSE stderr
                /\ i' = 1
                /\ pc' = "build"
                /\ UNCHANGED exc
    /\ UNCHANGED << inputs, flags, state_map, hostvars, uuid_index, groups, inv,
                    stdout, exit_code >>

\* one pass of the loop of build over rows
BuildRow ==
    /\ pc = "build"
    /\ i <= Len(rows)
    /\ IF HostVarRaises(rows[i])
       THEN /\ Raise("AttributeError")
            /\ UNCHANGED << hostvars, uuid_index, i >>
       ELSE /\ hostvars' = Put(hostvars, rows[i]["vm_name"], HostVar(rows[i]))
            /\ uuid_index' = IndexRow(uuid_index, rows[i])
            /\ i' = i + 1
            /\ UNCHANGED << pc, exc >>
    /\ UNCHANGED << inputs, flags, state_map, rows, groups, inv, stdout, stderr, exit_code >>

\* groups = self.grouper.generate_groups(rows): the call, groups = defaultdict(list)
CallGrouper ==
    /\ pc = "build"
    /\ i > Len(rows)
    /\ groups' = EmptyDict
    /\ i' = 1
    /\ pc' = "group"
    /\ UNCHANGED << inputs, flags, state_map, rows, hostvars, uuid_index, inv, exc,
                    stdout, stderr, exit_code >>

\* one pass of the loop of generate_groups over rows
GroupRow ==
    /\ pc = "group"
    /\ i <= Len(rows)
    /\ IF StateRuleRaises(rows[i])
       THEN /\ Raise("AttributeError")
            /\ UNCHANGED << groups, i >>
       ELSE /\ groups' = ClassifyRow(groups, rows[i])
            /\ i' = i + 1
            /\ UNCHANGED << pc, exc >>
    /\ UNCHANGED << inputs, flags, state_map, rows, hostvars, uuid_index, inv,
                    stdout, stderr, exit_code >>

\* generate_groups returns and build assembles the document
Assemble ==
    /\ pc = "group"
    /\ i > Len(rows)
    /\ inv' = Document(hostvars, uuid_index, groups)
    /\ pc' = "output"
    /\ UNCHANGED << inputs, flags, state_map, rows, i, hostvars, uuid_index, groups,
                    exc, stdout, stderr, exit_code >>

\* InventoryOutput.print_host(inventory, args.host), then run returns
PrintHost ==
    /\ pc = "output"
    /\ Truthy(args.host)
    /\ LET data == HostEntry(inv, args.host)
       IN  IF PrintRaises(Range(data))
           THEN /\ Raise("UnicodeEncodeError")
                /\ UNCHANGED << stdout, exit_code >>
           ELSE /\ stdout' = Append(stdout, data)
                /\ exit_code' = 0
                /\ pc' = "exit"
                /\ UNCHANGED exc
    /\ UNCHANGED << inputs, flags, state_map, rows, i, hostvars, uuid_index, groups,
                    inv, stderr >>

\* InventoryOutput.print_list(inventory), then run returns
PrintList ==
    /\ pc = "output"
    /\ ~ Truthy(args.host)
    /\ IF PrintRaises(StringsOfDocument(inv))
       THEN /\ Raise("UnicodeEncodeError")
            /\ UNCHANGED << stdout, exit_code >>
       ELSE /\ stdout' = Append(stdout, inv)
            /\ exit_code' = 0
            /\ pc' = "exit"
            /\ UNCHANGED exc
    /\ UNCHANGED << inputs, flags, state_map, rows, i, hostvars, uuid_index, groups,
                    inv, stderr >>

\* the first except clause matches: except (FileNotFoundError, ValueError)
CaughtAsError(e) == IsInstance(e, "FileNotFoundError") \/ IsInstance(e, "ValueError")

\* except (FileNotFoundError, ValueError): ERROR, exit 2
ExceptValueError ==
    /\ pc = "except"
    /\ CaughtAsError(exc)
    /\ stderr' = Append(stderr, [level |-> "ERROR", what |-> exc, names |-> << >>])
    /\ exit_code' = 2
    /\ pc' = "exit"
    /\ UNCHANGED << inputs, flags, state_map, rows, i, hostvars, uuid_index, groups,
                    inv, exc, stdout >>

\* except Exception: FATAL, exit 1
ExceptException ==
    /\ pc = "except"
    /\ ~ CaughtAsError(exc)
    /\ IsInstance(exc, "Exception")
    /\ stderr' = Append(stderr, [level |-> "FATAL", what |-> exc, names |-> << >>])
    /\ exit_code' = 1
    /\ pc' = "exit"
    /\ UNCHANGED << inputs, flags, state_map, rows, i, hostvars, uuid_index, groups,
                    inv, exc, stdout >>

Next ==
    \/ Setup
    \/ Read
    \/ BuildRow
    \/ CallGrouper
    \/ GroupRow
    \/ Assemble
    \/ PrintHost
    \/ PrintList
    \/ ExceptValueError
    \/ ExceptException

(***************************************************************************)
(* The inputs a run is started on.  Each family varies what its claims are *)
(* about and keeps the rest at the defaults.                               *)
(***************************************************************************)
h1 == << "h", "1" >>
h2 == << "h", "2" >>
h3 == << "h", "3" >>

\* a header with every column the program reads, and the shortest valid one
Header6 == << "vm_name", "vm_state", "vm_ip_addr", "vm_groups", "vm_owner", "vm_uuid" >>
Header3 == << "vm_name", "vm_state", "vm_ip_addr" >>

\* INV_STATE_MAP, by what json.loads makes of its text
MapUnset   == [json |-> "unset",   value |-> EmptyDict]
MapEmpty   == [json |-> "empty",   value |-> EmptyDict]
MapInvalid == [json |-> "invalid", value |-> EmptyDict]
MapArray   == [json |-> "array",   value |-> EmptyDict]
\* {"ON": "poweredoff", "off": "absent"}
MapUpperKey ==
    [json |-> "object", value |-> (<< "O", "N" >> :> s_poweredoff) @@ (s_off :> s_absent)]
\* {"on": "absent"}
MapLowerKey == [json |-> "object", value |-> (s_on :> s_absent)]
\* {}
MapNoKey == [json |-> "object", value |-> EmptyDict]

Env(owner, state, custom, map) ==
    [ INV_GROUP_BY_OWNER |-> owner, INV_GROUP_BY_STATE |-> state,
      INV_GROUP_BY_CUSTOM |-> custom, INV_STATE_MAP |-> map ]

DefaultEnv == Env(None, None, None, MapUnset)

\* the values an INV_GROUP_BY_* variable takes: unset, truthy, not truthy
FlagValues == { None, << "Y", "e", "s" >>, << "0" >> }

\* every CSV body of at most MaxRows lines drawn from a set of lines
Bodies(lines) == UNION { [1..n -> lines] : n \in 0..MaxRows }

TextFiles(header, lines) ==
    { [kind |-> "text", header |-> header, lines |-> b] : b \in Bodies(lines) }

NoFile(kind) == [kind |-> kind, header |-> << >>, lines |-> << >>]

\* lines for the classifier: name, state, address, groups, owner, uuid
GroupLines ==
    { << << " ", "h", "1" >>, << "O", "N", " " >>, << "1" >>, << "a", ",", "a" >>, << >>, << >> >>,
      << << "h", "2" >>, << "o", "f", "f" >>, << "1" >>, << "v", "m", "_", "x", ",", " ", "b" >>, << "b", "o", "b" >>, << "u", "1" >> >>,
      << << "h", "1" >>, << >>, << "1" >>, << "_", "m", "e", "t", "a" >>, << "b", "o", "b" >>, << "u", "2" >> >>,
      << << "h", "2" >>, << "w", "e", "i", "r", "d" >>, << "1" >>, << "a", "l", "l", ",", ",", "u", "n", "g", "r", "o", "u", "p", "e", "d" >>, << >>, << "N", "o", "n", "e" >> >>,
      << << "h", "3" >>, << "D", "e", "l" >>, << "1" >>, << "o", "w", "n", "e", "r", "_", "b", "o", "b", ",", "s", "t", "a", "t", "e", "_", "a", "b", "s", "e", "n", "t" >>, << "b", "o", "b" >>, << >> >>,
      << << " ", " " >>, << "o", "n" >>, << "1" >>, << "a" >>, << "b", "o", "b" >>, << "u", "1" >> >>,
      << << "h", "3" >>, << "o", "n" >>, << "1" >>, << "v", "m", "_", "y", ",", "u", "n", "g", "r", "o", "u", "p", "e", "d" >>, << >>, << >> >> }

\* lines for the UUID index and the host variables
UuidLines ==
    { << << "h", "1" >>, << "o", "n" >>, << "1" >>, << >>, << >>, << "u", "1" >> >>,
      << << "h", "2" >>, << "o", "f", "f" >>, << "1" >>, << >>, << "a", "l" >>, << "u", "1" >> >>,
      << << "h", "1" >>, << "d", "e", "l" >>, << "1" >>, << >>, << >>, << "N", "o", "n", "e" >> >>,
      << << "h", "2" >>, << "o", "n" >>, << "1" >>, << >>, << >>, << " ", "N", "O", "N", "E" >> >>,
      << << "h", "3" >>, << "o", "n" >>, << "1" >>, << >>, << >>, << >> >>,
      << << "h", "3" >>, << "o", "n" >>, << "1" >> >> }

\* lines for state normalization
StateLines ==
    { << << "h", "1" >>, << "o", "n" >>, << "1" >> >>,
      << << "h", "2" >>, << " ", "O", "N" >>, << "1" >> >>,
      << << "h", "3" >>, << "O", "n", " " >>, << "1" >> >>,
      << << "h", "1" >>, << "O", "F", "F" >>, << "1" >> >>,
      << << "h", "2" >>, << "w", "e", "i", "r", "d" >>, << "1" >> >>,
      << << "h", "3" >>, << >>, << "1" >> >> }

\* lines for the outcomes of a run: a plain one, a non-ASCII name, a line
\* longer than the header, a line shorter than it
RunLines ==
    { << << "h", "1" >>, << "o", "n" >>, << "1" >> >>,
      << << "h", "é" >>, << "o", "f", "f" >>, << "1" >> >>,
      << << "h", "2" >>, << "o", "n" >>, << "1" >>, << "x" >> >>,
      << << "h", "2" >> >> }

Scenario(a, e, f, enc) == [args |-> a, environ |-> e, file |-> f, enc |-> enc]

ListArgs == [host |-> None]

\* every flag setting and two tables, on the classifier's lines
GroupScenarios ==
    { Scenario(ListArgs, Env(o, st, c, m), f, "utf-8") :
        o \in FlagValues, st \in FlagValues, c \in FlagValues,
        m \in { MapUnset, MapUpperKey }, f \in TextFiles(Header6, GroupLines) }

UuidScenarios ==
    { Scenario(ListArgs, DefaultEnv, f, "utf-8") : f \in TextFiles(Header6, UuidLines) }

StateScenarios ==
    { Scenario(ListArgs, Env(None, None, None, m), f, "utf-8") :
        m \in { MapUnset, MapInvalid, MapUpperKey, MapLowerKey, MapNoKey },
        f \in TextFiles(Header3, StateLines) }

RunScenarios ==
    { Scenario([host |-> hn], Env(None, None, None, m), f, enc) :
        hn \in { None, h1, << "h", "é" >> }, m \in { MapUnset, MapEmpty, MapArray },
        enc \in { "utf-8", "ascii" },
        f \in { NoFile("missing"), NoFile("directory"), NoFile("undecodable"),
                [kind |-> "text", header |-> << >>, lines |-> << >>],
                [kind |-> "text", header |-> << "vm_name", "vm_state" >>, lines |-> << >>] }
              \cup TextFiles(Header3, RunLines) }

Scenarios == GroupScenarios \cup UuidScenarios \cup StateScenarios \cup RunScenarios

Init ==
    /\ \E sc \in Scenarios :
          /\ args = sc.args
          /\ environ = sc.environ
          /\ file = sc.file
          /\ stdout_encoding = sc.enc
    /\ pc = "setup"
    /\ flags = [group_by_owner |-> TRUE, group_by_state |-> TRUE, group_by_custom |-> TRUE]
    /\ state_map = [type |-> "dict", items |-> EmptyDict]
    /\ rows = << >>
    /\ i = 1
    /\ hostvars = EmptyDict
    /\ uuid_index = EmptyDict
    /\ groups = EmptyDict
    /\ inv = EmptyDict
    /\ exc = ""
    /\ stdout = << >>
    /\ stderr = << >>
    /\ exit_code = -1

Spec == Init /\ [][Next]_vars

(***************************************************************************)
(* Vocabulary of the properties.                                           *)
(***************************************************************************)
\* build has returned its document
Assembled == s_all \in DOMAIN inv

\* the retained rows have pairwise distinct vm_name values
DistinctNames ==
    \A m, n \in 1..Len(rows) : m # n => rows[m]["vm_name"] # rows[n]["vm_name"]

\* how often x occurs in a list
Count(list, x) == Cardinality({ k \in 1..Len(list) : list[k] = x })

\* the members of group g in a mapping of groups, none when g is no group
Members(gs, g) == IF g \in DOMAIN gs THEN Range(gs[g]) ELSE {}

\* b is a in ascending order
SortedPermutation(a, b) ==
    /\ Len(a) = Len(b)
    /\ \A x \in Range(a) \cup Range(b) : Count(a, x) = Count(b, x)
    /\ \A k \in 1..(Len(b) - 1) : ~ StrLess(b[k + 1], b[k])

\* an INV_GROUP_BY_* variable enables its rule: unset, or a truthy token
Enabled(name) ==
    \/ environ[name] = None
    \/ Lower(environ[name]) \in { s_1, s_true, s_yes, s_on }

\* the state table in effect: INV_STATE_MAP when it parses to an object
TableInEffect ==
    IF environ["INV_STATE_MAP"].json = "object"
    THEN environ["INV_STATE_MAP"].value
    ELSE DefaultStateMap

\* a column's text, the empty text when the column is absent or has no value
Text(row, col) ==
    IF col \in DOMAIN row /\ row[col] # None THEN row[col] ELSE << >>

\* the document lists host h in the hosts of some group entry
ListedInSomeGroup(h) ==
    \E g \in DOMAIN inv : "hosts" \in DOMAIN inv[g] /\ h \in Range(inv[g]["hosts"])

(***************************************************************************)
(* C1.                                                                     *)
(***************************************************************************)
\* C1: for a CSV that loads with pairwise distinct vm_name values, whatever
\* the flags and the state table, the built inventory has exactly one
\* _meta.hostvars key per retained row (its vm_name) and every such host is
\* in the hosts list of at least one group entry of the document.
C1_EveryHostOnceAndGrouped ==
    (Assembled /\ DistinctNames) =>
        /\ "hostvars" \in DOMAIN inv[s_meta]
        /\ DOMAIN inv[s_meta]["hostvars"] = { rows[k]["vm_name"] : k \in 1..Len(rows) }
        /\ Cardinality(DOMAIN inv[s_meta]["hostvars"]) = Len(rows)
        /\ \A k \in 1..Len(rows) : ListedInSomeGroup(rows[k]["vm_name"])

(***************************************************************************)
(* C2.                                                                     *)
(***************************************************************************)
\* C2: in the mapping generate_groups returns, for every row set the loader
\* can return, no host name occurs more than once in the host list of any
\* single group.
C2_NoHostTwiceInAGroup ==
    Assembled =>
        \A g \in DOMAIN groups : \A h \in Range(groups[g]) : Count(groups[g], h) = 1

(***************************************************************************)
(* C3.                                                                     *)
(***************************************************************************)
\* C3: the document build returns has _meta.hostvars equal to the full
\* host-variable mapping, for every group name g of the classifier a
\* top-level entry g equal to {"hosts": sorted members of g}, and an all
\* entry with children = the sorted group names and vars.uuid_index = the
\* UUID index; for every group name, a group named all or _meta included.
C3_DocumentShape ==
    Assembled =>
        /\ inv[s_meta] = [hostvars |-> hostvars]
        /\ \A g \in DOMAIN groups :
              /\ g \in DOMAIN inv
              /\ DOMAIN inv[g] = {"hosts"}
              /\ SortedPermutation(groups[g], inv[g]["hosts"])
        /\ DOMAIN inv[s_all] = {"children", "vars"}
        /\ Range(inv[s_all]["children"]) = DOMAIN groups
        /\ Len(inv[s_all]["children"]) = Cardinality(DOMAIN groups)
        /\ \A k \in 1..(Len(inv[s_all]["children"]) - 1) :
              StrLess(inv[s_all]["children"][k], inv[s_all]["children"][k + 1])
        /\ inv[s_all]["vars"] = [uuid_index |-> uuid_index]

(***************************************************************************)
(* C4.                                                                     *)
(***************************************************************************)
\* the failures the claim gives exit status 2: no file at the path, an empty
\* or header-less CSV, a required column missing
CsvRejected ==
    \/ file.kind = "missing"
    \/ /\ file.kind = "text"
       /\ \/ file.header = << >>
          \/ ~ ({"vm_name", "vm_state", "vm_ip_addr"} \subseteq HeaderSet(file.header))

\* C4: every run ends in exactly one of three outcomes and writes JSON to
\* standard output only in the first: success, exit 0, after the document
\* has been assembled; exit 2 with nothing on standard output when the CSV
\* path does not exist, the CSV is empty or header-less or a required
\* column is missing; exit 1 with nothing on standard output on any other
\* failure.
C4_ThreeOutcomes ==
    pc = "exit" =>
        \/ /\ exit_code = 0
           /\ Len(stdout) = 1
           /\ Assembled
           /\ ~ CsvRejected
        \/ /\ exit_code = 2
           /\ stdout = << >>
           /\ CsvRejected
        \/ /\ exit_code = 1
           /\ stdout = << >>
           /\ ~ CsvRejected

(***************************************************************************)
(* C5.                                                                     *)
(***************************************************************************)
\* the loop of build over rows has ended
Built == pc = "group" \/ Assembled

\* uuid_index holds u -> h exactly for the vm_uuid values u of the rows in K,
\* h being the vm_name of the last row of K with that value
IndexOfRows(K) ==
    /\ DOMAIN uuid_index = { rows[k]["vm_uuid"] : k \in K }
    /\ \A k \in K :
          LET last == CHOOSE j \in K :
                        /\ rows[j]["vm_uuid"] = rows[k]["vm_uuid"]
                        /\ \A n \in K : rows[n]["vm_uuid"] = rows[k]["vm_uuid"] => n <= j
          IN  uuid_index[rows[k]["vm_uuid"]] = rows[last]["vm_name"]

\* the rows with a vm_uuid value that is not "none" in any letter case
RowsWithUuid ==
    { k \in 1..Len(rows) :
        /\ "vm_uuid" \in DOMAIN rows[k]
        /\ rows[k]["vm_uuid"] # None
        /\ Lower(rows[k]["vm_uuid"]) # s_none }

\* C5 as stated: after build, uuid_index has an entry u -> h exactly when
\* some row has a vm_uuid value u that is not "none" in any letter case, h
\* being the vm_name of the last such row; every row with a vm_uuid column
\* other than the "none" rows contributes one.
C5_IndexOfEveryUuid == Built => IndexOfRows(RowsWithUuid)

\* C5 as amended: after build, uuid_index has an entry u -> h exactly when
\* some row has a non-empty vm_uuid value u that is not "none" in any letter
\* case, h being the vm_name of the last such row; a row whose vm_uuid is
\* empty contributes no entry.
C5_IndexOfNonEmptyUuids ==
    Built => IndexOfRows({ k \in RowsWithUuid : rows[k]["vm_uuid"] # << >> })

\* two rows with different names share a vm_uuid and the later one is indexed
C5_Witness ==
    /\ Assembled
    /\ \E j, k \in 1..Len(rows) :
          /\ j < k
          /\ rows[j]["vm_name"] # rows[k]["vm_name"]
          /\ Truthy(Get(rows[k], "vm_uuid", None))
          /\ rows[j]["vm_uuid"] = rows[k]["vm_uuid"]
          /\ uuid_index[rows[k]["vm_uuid"]] = rows[k]["vm_name"]

(***************************************************************************)
(* C6.                                                                     *)
(***************************************************************************)
\* the value the claim gives raw state s: the table value of the key equal
\* to s after trimming and ignoring letter case, "poweredon" without one
ClaimedNormal(s) ==
    LET keys == { key \in DOMAIN TableInEffect : Lower(key) = Lower(Strip(s)) }
    IN  IF keys = {} THEN s_poweredon ELSE TableInEffect[CHOOSE key \in keys : TRUE]

\* every line of the file is a retained row, so rows[k] is line k
AllLinesRetained == file.kind = "text" /\ Len(rows) = Len(file.lines)

\* the raw vm_state of line k, before read trims it
RawState(k) ==
    LET n == CHOOSE m \in 1..Len(file.header) : file.header[m] = "vm_state"
    IN  IF n <= Len(file.lines[k]) THEN file.lines[k][n] ELSE << >>

\* C6: for the state table in effect and every raw state s, normalization
\* returns the table value of the key that equals s after trimming and
\* ignoring letter case, and "poweredon" when the table has no such key;
\* two raw values that differ only in case or surrounding whitespace
\* normalize to the same value, whatever the case of the table's keys.
C6_CaseInsensitiveLookup ==
    (Built /\ AllLinesRetained /\ DistinctNames) =>
        /\ \A k \in 1..Len(rows) :
              hostvars[rows[k]["vm_name"]]["vmware_state"] = ClaimedNormal(RawState(k))
        /\ \A j, k \in 1..Len(rows) :
              Lower(Strip(RawState(j))) = Lower(Strip(RawState(k))) =>
                  hostvars[rows[j]["vm_name"]]["vmware_state"]
                      = hostvars[rows[k]["vm_name"]]["vmware_state"]

(***************************************************************************)
(* C7.                                                                     *)
(***************************************************************************)
\* the normalized state of a row's vm_state under the table in effect
Normalized(s) == Get(TableInEffect, Lower(Strip(s)), s_poweredon)

\* the group names the three rules give a row
RuleGroups(row) ==
    (IF Enabled("INV_GROUP_BY_CUSTOM")
     THEN { Strip(t) : t \in Range(Split(Text(row, "vm_groups"))) } \ { << >> }
     ELSE {})
    \cup (IF Enabled("INV_GROUP_BY_OWNER") /\ Text(row, "vm_owner") # << >>
          THEN { s_owner_ \o row["vm_owner"] }
          ELSE {})
    \cup (IF Enabled("INV_GROUP_BY_STATE") /\ Text(row, "vm_state") # << >>
          THEN { s_state_ \o Normalized(row["vm_state"]) }
          ELSE {})

\* C7: with distinct vm_name values and any flag setting, a host is a
\* member of a group g other than ungrouped if and only if g is a non-empty
\* trimmed comma-separated token of its vm_groups (custom grouping enabled),
\* or "owner_" + its non-empty vm_owner (owner grouping enabled), or
\* "state_" + its normalized non-empty vm_state (state grouping enabled).
C7_MembershipRules ==
    (Assembled /\ DistinctNames) =>
        \A k \in 1..Len(rows) :
            { g \in DOMAIN groups : rows[k]["vm_name"] \in Members(groups, g) } \ { s_ungrouped }
                = RuleGroups(rows[k]) \ { s_ungrouped }

\* a host with vm_groups "vm_x, b", an owner and a state is in four groups
C7_Witness ==
    /\ Assembled
    /\ DistinctNames
    /\ \E k \in 1..Len(rows) :
          /\ Len(Split(Text(rows[k], "vm_groups"))) = 2
          /\ Cardinality(RuleGroups(rows[k])) = 4
          /\ \A g \in RuleGroups(rows[k]) : rows[k]["vm_name"] \in Members(groups, g)
          /\ rows[k]["vm_groups"] \notin DOMAIN groups

(***************************************************************************)
(* C8.                                                                     *)
(***************************************************************************)
\* the variables of one row alone: its columns, then ansible_host and, with
\* a vm_state column, vmware_state
VarsOfRow(row) ==
    [ k \in DOMAIN row \cup {"ansible_host"}
              \cup (IF "vm_state" \in DOMAIN row THEN {"vmware_state"} ELSE {}) |->
        IF k = "ansible_host" THEN row["vm_ip_addr"]
        ELSE IF k = "vmware_state" THEN Normalized(Text(row, "vm_state"))
        ELSE row[k] ]

\* C8: when two retained rows share a vm_name, the loader keeps both, in
\* CSV order, and _meta.hostvars[name] after build equals the variables
\* computed from the later row alone.
C8_LaterRowWins ==
    (Assembled /\ ~ DistinctNames) =>
        /\ rows = Retained(file.header, file.lines)
        /\ \A j, k \in 1..Len(rows) :
              (j < k /\ rows[j]["vm_name"] = rows[k]["vm_name"]) =>
                  /\ "hostvars" \in DOMAIN inv[s_meta]
                  /\ inv[s_meta]["hostvars"][rows[k]["vm_name"]] = VarsOfRow(rows[k])

(***************************************************************************)
(* C9.                                                                     *)
(***************************************************************************)
\* how often host h is listed in group g
Listed(gs, g, h) == IF g \in DOMAIN gs THEN Count(gs[g], h) ELSE 0

\* the custom tokens of a row that name group g
TokensNaming(row, g) ==
    IF Enabled("INV_GROUP_BY_CUSTOM")
    THEN LET tokens == Split(Text(row, "vm_groups"))
         IN  Cardinality({ k \in 1..Len(tokens) : Strip(tokens[k]) = g })
    ELSE 0

\* generate_groups has just classified rows[i]
Classified == pc = "group" /\ pc' = "group" /\ i' = i + 1

\* after the pass, a group named vm_... holds the host of rows[i]
InVmGroup ==
    \E g \in DOMAIN groups' :
        StartsWith(g, s_vm_) /\ rows[i]["vm_name"] \in Members(groups', g)

DocMembers(g) ==
    IF g \in DOMAIN inv /\ "hosts" \in DOMAIN inv[g] THEN Range(inv[g]["hosts"]) ELSE {}

\* state grouping enabled and custom grouping disabled
StateGroupingOnly == Enabled("INV_GROUP_BY_STATE") /\ ~ Enabled("INV_GROUP_BY_CUSTOM")

\* the normalized states there are
StateValues == Range(TableInEffect) \cup { s_poweredon }

\* host h is in group state_S if and only if its vmware_state is S
StateGroupMatchesVar(h) ==
    \A S \in StateValues :
        h \in DocMembers(s_state_ \o S) <=> inv[s_meta]["hostvars"][h]["vmware_state"] = S

\* C10 as stated: with distinct vm_name values, state grouping enabled and
\* custom grouping disabled, a host is a member of group "state_" + S if and
\* only if its vmware_state variable equals S, so every host that has a
\* vmware_state variable is a member of exactly one state_ group.
C10_StateGroupMatchesVar ==
    (Assembled /\ DistinctNames /\ StateGroupingOnly) =>
        \A k \in 1..Len(rows) : StateGroupMatchesVar(rows[k]["vm_name"])

\* C10 as amended: under the same conditions, a host whose vm_state is not
\* empty is a member of group "state_" + S if and only if its vmware_state
\* equals S, and of no other state_ group; a host whose vm_state is empty
\* has a vmware_state variable and is a member of no state_ group.
C10_StateGroupMatchesVarOfNonEmptyState ==
    (Assembled /\ DistinctNames /\ StateGroupingOnly) =>
        \A k \in 1..Len(rows) :
            LET h == rows[k]["vm_name"]
                stateGroups == { g \in DOMAIN inv : StartsWith(g, s_state_) /\ h \in DocMembers(g) }
            IN  /\ "vmware_state" \in DOMAIN inv[s_meta]["hostvars"][h]
                /\ IF Text(rows[k], "vm_state") # << >>
                   THEN /\ StateGroupMatchesVar(h)
                        /\ Cardinality(stateGroups) = 1
                   ELSE stateGroups = {}

\* one host with a state is in its state group, another has an empty state
C10_Witness ==
    /\ Assembled
    /\ DistinctNames
    /\ StateGroupingOnly
    /\ \E j, k \in 1..Len(rows) :
          /\ Text(rows[j], "vm_state") # << >>
          /\ rows[j]["vm_name"] \in
                DocMembers(s_state_ \o inv[s_meta]["hostvars"][rows[j]["vm_name"]]["vmware_state"])
          /\ Text(rows[k], "vm_state") = << >>
          /\ "vmware_state" \in DOMAIN inv[s_meta]["hostvars"][rows[k]["vm_name"]]

====
